---- MODULE Spec2Model ----
(***************************************************************************)
(* scripts/make_migrations_idempotent.py: a batch tool that rewrites every *)
(* *.sql file of one directory so that its CREATE statements can be re-run.*)
(*                                                                         *)
(* A text is a sequence of lexemes (TLA+ strings); the file's characters   *)
(* are the concatenation of its lexemes.  The alphabet below is chosen so  *)
(* that no lexeme is a proper prefix or suffix of a string the code looks  *)
(* for: containment and regular-expression matching on lexemes then agree  *)
(* with Python's on characters.  Character counts (the 200 character       *)
(* window) are sums of Len over lexemes.                                   *)
(***************************************************************************)
EXTENDS Integers, Sequences, FiniteSets, TLC

VARIABLES
  dirExists,         \* migrations_dir.exists()
  disk,              \* the directory: entry -> text of the file
  pc,                \* the program point of main / process_migration_file
  migration_files,   \* main's sorted list
  total_files,
  modified_files,
  idx,               \* the position of the for loop in migration_files
  content,           \* process_migration_file's buffer
  original_content,
  modified,
  ret,               \* the value process_migration_file returned
  log,               \* the console lines, one <<file, outcome>> per file
  report,            \* the summary printed at the end
  exit,              \* main's return value, -1 while it runs
  orig,              \* history: the directory as the run found it
  before,            \* history: the buffer before the rule applied last
  io                 \* history: the file operations made, <<operation, file>>

vars == <<dirExists, disk, pc, migration_files, total_files, modified_files,
          idx, content, original_content, modified, ret, log, report, exit,
          orig, before, io>>

----------------------------------------------------------------------------
(* Bounds of the model *)

\* longest input text, in statements
MaxFrags == 2
\* most *.sql files in the directory
MaxFiles == 3
\* longest prefix (in lexemes) a failed write leaves on disk
MaxTorn == 2

\* before_text[-200:]  (line 36, and again line 59)
Window == 200

----------------------------------------------------------------------------
(* Strings: Python's str operations on lexeme sequences *)

Max(S) == CHOOSE x \in S : \A y \in S : y <= x
Min(S) == CHOOSE x \in S : \A y \in S : x <= y

\* \s : the whitespace lexemes
IsSpace(t) == t \in {" ", "\n"}

\* lexemes whose last character is not a word character (\w), for \b
NonWordEnd == {" ", "\n", ";", "()", "('a','b')", "(", ")", "'a'", "$$", "\"p\""}

\* len(s) in characters
RECURSIVE CharLen(_)
CharLen(s) == IF s = <<>> THEN 0 ELSE Len(Head(s)) + CharLen(Tail(s))

\* s[i:] in lexemes (1-based, inclusive)
From(s, i) == SubSeq(s, i, Len(s))

\* s[-n:] : the longest suffix of whole lexemes within the last n characters
LastChars(s, n) ==
  LET ok == {i \in 1..(Len(s) + 1) : CharLen(From(s, i)) <= n}
  IN  From(s, Min(ok))

\* s.startswith(pat, i)
LitAt(s, i, pat) ==
  /\ i >= 1
  /\ i + Len(pat) - 1 <= Len(s)
  /\ SubSeq(s, i, i + Len(pat) - 1) = pat

\* pat in s
Contains(s, pat) == \E i \in 1..Len(s) : LitAt(s, i, pat)

\* \s+ (greedy) from i: the index of the last lexeme of the whitespace run
\* (i - 1 when there is none)
RECURSIVE SpaceEnd(_, _)
SpaceEnd(s, i) ==
  IF i <= Len(s) /\ IsSpace(s[i]) THEN SpaceEnd(s, i + 1) ELSE i - 1

\* \S+ (greedy) from i: the index of the last lexeme of the run
RECURSIVE RunEnd(_, _)
RunEnd(s, i) ==
  IF i <= Len(s) /\ ~IsSpace(s[i]) THEN RunEnd(s, i + 1) ELSE i - 1

\* \b before position i, where a word character starts
WordBoundary(s, i) == i = 1 \/ s[i - 1] \in NonWordEnd

\* str.replace(old, new): every non-overlapping occurrence, left to right
RECURSIVE Replace(_, _, _)
Replace(s, old, new) ==
  IF s = <<>> THEN <<>>
  ELSE IF LitAt(s, 1, old) THEN new \o Replace(From(s, Len(old) + 1), old, new)
  ELSE <<Head(s)>> \o Replace(Tail(s), old, new)

\* s.split('\n')
RECURSIVE Split(_)
Split(s) ==
  LET nl == {i \in 1..Len(s) : s[i] = "\n"}
  IN  IF nl = {} THEN <<s>>
      ELSE <<SubSeq(s, 1, Min(nl) - 1)>> \o Split(From(s, Min(nl) + 1))

\* '\n'.join(lines)
RECURSIVE Join(_)
Join(lines) ==
  IF lines = <<>> THEN <<>>
  ELSE IF Len(lines) = 1 THEN lines[1]
  ELSE lines[1] \o <<"\n">> \o Join(Tail(lines))

\* line.strip()
RECURSIVE Strip(_)
Strip(s) ==
  IF s = <<>> THEN s
  ELSE IF IsSpace(Head(s)) THEN Strip(Tail(s))
  ELSE IF IsSpace(s[Len(s)]) THEN Strip(SubSeq(s, 1, Len(s) - 1))
  ELSE s

NoMatch == [found |-> FALSE]

----------------------------------------------------------------------------
(* Rule 1: DROP POLICY IF EXISTS before CREATE POLICY *)

\* the lexemes "<name>" of quoted policy names
QuotedNames == {"\"p\""}

\* r'CREATE POLICY "([^"]+)"\s+ON\s+(\S+)' tried at position i.
\* group 1 is kept with its quotes: the quoted name is one lexeme.
policy_pattern(s, i) ==
  IF /\ LitAt(s, i, <<"CREATE", " ", "POLICY", " ">>)
     /\ i + 4 <= Len(s)
     /\ s[i + 4] \in QuotedNames
  THEN LET a == SpaceEnd(s, i + 5)
           b == SpaceEnd(s, a + 2)
           e == RunEnd(s, b + 1)
       IN  IF a >= i + 5 /\ LitAt(s, a + 1, <<"ON">>) /\ b >= a + 2 /\ e >= b + 1
           THEN [found |-> TRUE, start |-> i, end |-> e,
                 g1 |-> <<s[i + 4]>>, g2 |-> SubSeq(s, b + 1, e)]
           ELSE NoMatch
  ELSE NoMatch

\* a faulty variant of add_drop_policy: the DROP is looked for in all of
\* before_text instead of its last 200 characters
add_drop_policy_anywhere(s, m) ==
  LET full_match  == SubSeq(s, m.start, m.end)
      before_text == SubSeq(s, 1, m.start - 1)
      drop_check  == <<"DROP", " ", "POLICY", " ", "IF", " ", "EXISTS", " ">>
                       \o m.g1 \o <<" ", "ON", " ">> \o m.g2 \o <<";">>
  IN  IF Contains(before_text, drop_check)
      THEN full_match
      ELSE drop_check \o <<"\n">> \o full_match

add_drop_policy(s, m) ==
  LET policy_name == m.g1
      table_name  == m.g2
      full_match  == SubSeq(s, m.start, m.end)
      before_text == SubSeq(s, 1, m.start - 1)
      drop_check  == <<"DROP", " ", "POLICY", " ", "IF", " ", "EXISTS", " ">>
                       \o policy_name \o <<" ", "ON", " ">> \o table_name \o <<";">>
  IN  IF Contains(LastChars(before_text, Window), drop_check)
      THEN full_match
      ELSE drop_check \o <<"\n">> \o full_match

\* re.sub(policy_pattern, add_drop_policy, content), scanning from i
RECURSIVE SubPolicy(_, _)
SubPolicy(s, i) ==
  IF i > Len(s) THEN <<>>
  ELSE LET m == policy_pattern(s, i)
       IN  IF m.found THEN add_drop_policy(s, m) \o SubPolicy(s, m.end + 1)
           ELSE <<s[i]>> \o SubPolicy(s, i + 1)

----------------------------------------------------------------------------
(* Rule 2: DROP TRIGGER IF EXISTS before CREATE TRIGGER *)

\* (?:BEFORE|AFTER|INSTEAD OF) at position i: the index of its last lexeme, or 0
TimingEnd(s, i) ==
  IF LitAt(s, i, <<"BEFORE">>) \/ LitAt(s, i, <<"AFTER">>) THEN i
  ELSE IF LitAt(s, i, <<"INSTEAD", " ", "OF">>) THEN i + 2
  ELSE 0

\* \s+.*?\s+ON\s+(\S+) after the timing keyword that ends at te.  The pair
\* <<j, k>>: the first \s+ ends at j, the lazy .*? (which matches no newline:
\* the pattern is compiled without re.DOTALL) ends at k.  The backtracking
\* search tries the longest first \s+ first, then the shortest .*?.
\* dotall: whether . matches a newline (the flag re.DOTALL).
TriggerTails(s, te, dotall) ==
  {jk \in (te + 1 .. SpaceEnd(s, te + 1)) \X (te + 1 .. Len(s)) :
     LET j == jk[1]
         k == jk[2]
         c == SpaceEnd(s, k + 1)
         d == SpaceEnd(s, c + 2)
     IN  /\ k >= j
         /\ dotall \/ \A x \in (j + 1)..k : s[x] # "\n"
         /\ c >= k + 1
         /\ LitAt(s, c + 1, <<"ON">>)
         /\ d >= c + 2
         /\ RunEnd(s, d + 1) >= d + 1}

\* r'CREATE TRIGGER (\S+)\s+(?:BEFORE|AFTER|INSTEAD OF)\s+.*?\s+ON\s+(\S+)'
\* tried at position i
TriggerMatch(s, i, dotall) ==
  IF LitAt(s, i, <<"CREATE", " ", "TRIGGER", " ">>)
  THEN LET r  == RunEnd(s, i + 4)
           a  == SpaceEnd(s, r + 1)
           te == TimingEnd(s, a + 1)
       IN  IF r >= i + 4 /\ a >= r + 1 /\ te > 0 /\ TriggerTails(s, te, dotall) # {}
           THEN LET T  == TriggerTails(s, te, dotall)
                    j  == Max({jk[1] : jk \in T})
                    k  == Min({jk[2] : jk \in {x \in T : x[1] = j}})
                    c  == SpaceEnd(s, k + 1)
                    d  == SpaceEnd(s, c + 2)
                    e  == RunEnd(s, d + 1)
                IN  [found |-> TRUE, start |-> i, end |-> e,
                     g1 |-> SubSeq(s, i + 4, r), g2 |-> SubSeq(s, d + 1, e)]
           ELSE NoMatch
  ELSE NoMatch

\* line 48 and the call of line 64: no flags are given
trigger_pattern(s, i) == TriggerMatch(s, i, FALSE)

add_drop_trigger(s, m) ==
  LET trigger_name == m.g1
      table_name   == m.g2
      full_match   == SubSeq(s, m.start, m.end)
      before_text  == SubSeq(s, 1, m.start - 1)
      drop_check   == <<"DROP", " ", "TRIGGER", " ", "IF", " ", "EXISTS", " ">>
                        \o trigger_name \o <<" ", "ON", " ">> \o table_name \o <<";">>
  IN  IF Contains(LastChars(before_text, Window), drop_check)
      THEN full_match
      ELSE drop_check \o <<"\n">> \o full_match

\* re.sub(trigger_pattern, add_drop_trigger, content), scanning from i
RECURSIVE SubTrigger(_, _)
SubTrigger(s, i) ==
  IF i > Len(s) THEN <<>>
  ELSE LET m == trigger_pattern(s, i)
       IN  IF m.found THEN add_drop_trigger(s, m) \o SubTrigger(s, m.end + 1)
           ELSE <<s[i]>> \o SubTrigger(s, i + 1)

----------------------------------------------------------------------------
(* Rule 3: CREATE TABLE IF NOT EXISTS *)

\* the lexemes that start with "public." and go on
PublicNames == {"public.users", "public.status"}

IfNotExists == <<"IF", " ", "NOT", " ", "EXISTS">>

\* r'\bCREATE TABLE (public\.\S+)'
table_pattern(s, i) ==
  IF /\ LitAt(s, i, <<"CREATE", " ", "TABLE", " ">>)
     /\ WordBoundary(s, i)
     /\ i + 4 <= Len(s)
     /\ s[i + 4] \in PublicNames
  THEN [found |-> TRUE, start |-> i, end |-> RunEnd(s, i + 4)]
  ELSE NoMatch

\* a faulty variant of add_if_not_exists_table: the replacement is returned
\* without the text matched
add_if_not_exists_table_bare(s, m) ==
  <<"CREATE", " ", "TABLE", " ">> \o IfNotExists

add_if_not_exists_table(s, m) ==
  LET full_match == SubSeq(s, m.start, m.end)
  IN  IF Contains(full_match, IfNotExists) THEN full_match
      ELSE Replace(full_match, <<"CREATE", " ", "TABLE">>,
                   <<"CREATE", " ", "TABLE", " ">> \o IfNotExists)

RECURSIVE SubTable(_, _)
SubTable(s, i) ==
  IF i > Len(s) THEN <<>>
  ELSE LET m == table_pattern(s, i)
       IN  IF m.found THEN add_if_not_exists_table(s, m) \o SubTable(s, m.end + 1)
           ELSE <<s[i]>> \o SubTable(s, i + 1)

----------------------------------------------------------------------------
(* Rule 4: CREATE [UNIQUE] INDEX IF NOT EXISTS *)

\* r'\bCREATE (?:UNIQUE )?INDEX (\S+)'
index_pattern(s, i) ==
  IF LitAt(s, i, <<"CREATE", " ">>) /\ WordBoundary(s, i)
  THEN LET n == IF LitAt(s, i + 2, <<"UNIQUE", " ">>) THEN i + 4 ELSE i + 2
           e == RunEnd(s, n + 2)
       IN  IF LitAt(s, n, <<"INDEX", " ">>) /\ e >= n + 2
           THEN [found |-> TRUE, start |-> i, end |-> e]
           ELSE NoMatch
  ELSE NoMatch

add_if_not_exists_index(s, m) ==
  LET full_match == SubSeq(s, m.start, m.end)
  IN  IF Contains(full_match, IfNotExists) THEN full_match
      ELSE IF Contains(full_match, <<"UNIQUE", " ", "INDEX">>)
      THEN Replace(full_match, <<"CREATE", " ", "UNIQUE", " ", "INDEX">>,
                   <<"CREATE", " ", "UNIQUE", " ", "INDEX", " ">> \o IfNotExists)
      ELSE Replace(full_match, <<"CREATE", " ", "INDEX">>,
                   <<"CREATE", " ", "INDEX", " ">> \o IfNotExists)

RECURSIVE SubIndex(_, _)
SubIndex(s, i) ==
  IF i > Len(s) THEN <<>>
  ELSE LET m == index_pattern(s, i)
       IN  IF m.found THEN add_if_not_exists_index(s, m) \o SubIndex(s, m.end + 1)
           ELSE <<s[i]>> \o SubIndex(s, i + 1)

----------------------------------------------------------------------------
(* Rule 5: CREATE TYPE ... AS ENUM wrapped in a DO block *)

Marker == <<"DO", " ", "$$", " ", "BEGIN">>

\* re.match(r'^CREATE TYPE (public\.\S+) AS ENUM', line)
type_pattern(line) ==
  /\ LitAt(line, 1, <<"CREATE", " ", "TYPE", " ">>)
  /\ Len(line) >= 5
  /\ line[5] \in PublicNames
  /\ LitAt(line, RunEnd(line, 5) + 1, <<" ", "AS", " ", "ENUM">>)

\* ';' in line
HasSemicolon(line) == \E x \in 1..Len(line) : line[x] = ";"

\* a faulty variant of CollectEnd: only the CREATE TYPE line is collected
CollectOneLine(lines, j) == j

\* the inner while loop: from the CREATE TYPE line at j, the index of the
\* last line collected (the first one holding a ';', else the last line)
RECURSIVE CollectEnd(_, _)
CollectEnd(lines, j) ==
  IF j < Len(lines) /\ ~HasSemicolon(lines[j]) THEN CollectEnd(lines, j + 1)
  ELSE j

\* the five lines appended for one CREATE TYPE statement
WrapLines(type_def_lines) ==
  LET type_definition == Join(type_def_lines)
  IN  << Marker,
         <<" ", " ">> \o type_definition,
         <<"EXCEPTION">>,
         <<" ", " ", "WHEN", " ", "duplicate_object", " ", "THEN", " ", "null", ";">>,
         <<"END", " ", "$$", ";">> >>

\* the outer while loop from line i: new_lines, and whether modified was set
RECURSIVE ScanLines(_, _)
ScanLines(lines, i) ==
  IF i > Len(lines) THEN [new_lines |-> <<>>, modified |-> FALSE]
  ELSE IF type_pattern(Strip(lines[i]))
  THEN LET j    == CollectEnd(lines, i)
           rest == ScanLines(lines, j + 1)
       IN  [new_lines |-> WrapLines(SubSeq(lines, i, j)) \o rest.new_lines,
            modified  |-> TRUE]
  ELSE LET rest == ScanLines(lines, i + 1)
       IN  [new_lines |-> <<lines[i]>> \o rest.new_lines,
            modified  |-> rest.modified]

\* the guard of line 125
TypeRuleApplies(s) ==
  Contains(s, <<"CREATE", " ", "TYPE">>) /\ ~Contains(s, Marker)

\* rule 5 as a whole: the new content and whether modified was set
WrapTypes(s) ==
  IF TypeRuleApplies(s)
  THEN LET r == ScanLines(Split(s), 1)
       IN  [content |-> Join(r.new_lines), modified |-> r.modified]
  ELSE [content |-> s, modified |-> FALSE]

----------------------------------------------------------------------------
(* process_migration_file as a function of the text read *)

\* one of rules 1 to 4: content, modified = new_content, True when they differ
Step(st, new_content) ==
  [content  |-> new_content,
   modified |-> st.modified \/ new_content # st.content]

\* a faulty variant of TypeStep: rule 5 does not set modified
TypeStepKeepsFlag(st) ==
  [content |-> WrapTypes(st.content).content, modified |-> st.modified]

\* rule 5 on the running state
TypeStep(st) ==
  LET r == WrapTypes(st.content)
  IN  [content |-> r.content, modified |-> st.modified \/ r.modified]

Rule1(st) == Step(st, SubPolicy(st.content, 1))
Rule2(st) == Step(st, SubTrigger(st.content, 1))
Rule3(st) == Step(st, SubTable(st.content, 1))
Rule4(st) == Step(st, SubIndex(st.content, 1))
Rule5(st) == TypeStep(st)

\* the five rules in order on the text read: the final buffer and flag
Pipeline(t) ==
  Rule5(Rule4(Rule3(Rule2(Rule1([content |-> t, modified |-> FALSE])))))

----------------------------------------------------------------------------
(* Input texts *)

Pad == "-- xxxxxxxxxxxxxxxxxxxxxxxxxxxxxxxxxxxxxxxxxxxxxxxxxxxxxxxxxxxxxxxxxxxxxxxxxxxxxxxxxxxxxxxxxxxxxxxxxxxxxxxxxxxxxxxxxxxxxxxxxxxxxxxxxxxxxxxxxxxxxxxxxxxxxxxxxxxxxxxxxxxx"

CreatePolicy == <<"CREATE", " ", "POLICY", " ", "\"p\"", " ", "ON", " ", "t", "\n">>
DropPolicy == <<"DROP", " ", "POLICY", " ", "IF", " ", "EXISTS", " ", "\"p\"",
                " ", "ON", " ", "t", ";", "\n">>
\* the DROP of DropPolicy starts exactly 200 characters before this CREATE
PadCreatePolicy == <<Pad, "\n">> \o CreatePolicy
\* ... and 201 characters before this one
PadSpCreatePolicy == <<Pad, "\n", " ">> \o CreatePolicy

CreateTrigger == <<"CREATE", " ", "TRIGGER", " ", "trg", " ", "BEFORE", " ",
                   "INSERT", " ", "ON", " ", "t", "\n">>
\* the event clause runs over two lines
CreateTriggerSplit == <<"CREATE", " ", "TRIGGER", " ", "trg", " ", "AFTER", " ",
                        "INSERT", " ", "OR", "\n", "UPDATE", " ", "ON", " ", "t", "\n">>
\* line breaks only around the clause
CreateTriggerLines == <<"CREATE", " ", "TRIGGER", " ", "trg", "\n", "INSTEAD", " ",
                        "OF", " ", "UPDATE", "\n", "ON", " ", "t", "\n">>
DropTrigger == <<"DROP", " ", "TRIGGER", " ", "IF", " ", "EXISTS", " ", "trg",
                 " ", "ON", " ", "t", ";", "\n">>
\* the DROP of DropTrigger starts 201 characters before this CREATE
PadCreateTrigger == <<Pad, "\n">> \o CreateTrigger

CreateTable == <<"CREATE", " ", "TABLE", " ", "public.users", " ", "()", ";", "\n">>
CreateTableGuarded == <<"CREATE", " ", "TABLE", " ", "IF", " ", "NOT", " ", "EXISTS",
                        " ", "public.users", " ", "()", ";", "\n">>
CreateTableOther == <<"CREATE", " ", "TABLE", " ", "users", " ", "()", ";", "\n">>

CreateIndex == <<"CREATE", " ", "INDEX", " ", "idx_x", " ", "ON", " ", "t", ";", "\n">>
CreateUniqueIndex == <<"CREATE", " ", "UNIQUE", " ", "INDEX", " ", "idx_x", " ",
                       "ON", " ", "t", ";", "\n">>
CreateIndexGuarded == <<"CREATE", " ", "INDEX", " ", "IF", " ", "NOT", " ", "EXISTS",
                        " ", "idx_x", " ", "ON", " ", "t", ";", "\n">>
\* no word boundary before CREATE
ProcreateIndex == <<"PRO", "CREATE", " ", "INDEX", " ", "idx_x", ";", "\n">>

CreateType == <<"CREATE", " ", "TYPE", " ", "public.status", " ", "AS", " ", "ENUM",
                " ", "('a','b')", ";", "\n">>
CreateTypeLines == <<" ", " ", "CREATE", " ", "TYPE", " ", "public.status", " ", "AS",
                     " ", "ENUM", " ", "(", "\n", "'a'", "\n", ")", ";", "\n">>
CreateTypeOther == <<"CREATE", " ", "TYPE", " ", "status", " ", "AS", " ", "ENUM",
                     " ", "('a','b')", ";", "\n">>
DoBlock == <<"DO", " ", "$$", " ", "BEGIN", "\n", "END", " ", "$$", ";", "\n">>

Frags == {CreatePolicy, DropPolicy, PadCreatePolicy, PadSpCreatePolicy,
          CreateTrigger, CreateTriggerSplit, CreateTriggerLines, DropTrigger,
          PadCreateTrigger, CreateTable, CreateTableGuarded, CreateTableOther,
          CreateIndex, CreateUniqueIndex, CreateIndexGuarded, ProcreateIndex,
          CreateType, CreateTypeLines, CreateTypeOther, DoBlock}

RECURSIVE Flatten(_)
Flatten(ss) == IF ss = <<>> THEN <<>> ELSE Head(ss) \o Flatten(Tail(ss))

\* the texts of up to MaxFrags statements
Inputs == {Flatten(fs) : fs \in UNION {[1..n -> Frags] : n \in 0..MaxFrags}}

\* the texts of the files of a directory of several files
BatchInputs == {<<>>, CreateTable, CreateTableGuarded}

\* entry 0 of a directory is not a *.sql file; entries 1..n are
IsSql(f) == f # 0
NotSql == CreateTable \o CreateIndex

Directories ==
  {[f \in 0..1 |-> IF f = 0 THEN NotSql ELSE t] : t \in Inputs}
  \cup UNION {{[f \in 0..n |-> IF f = 0 THEN NotSql ELSE g[f]] :
                 g \in [1..n -> BatchInputs]} : n \in 0..MaxFiles}

----------------------------------------------------------------------------
(* main and process_migration_file as a state machine *)

\* migrations_dir.glob('*.sql')
Glob == {f \in DOMAIN disk : IsSql(f)}

\* a faulty variant of Sorted: the files in descending order
RECURSIVE Descending(_)
Descending(S) == IF S = {} THEN <<>> ELSE <<Max(S)>> \o Descending(S \ {Max(S)})

\* sorted(...)
RECURSIVE Sorted(_)
Sorted(S) == IF S = {} THEN <<>> ELSE <<Min(S)>> \o Sorted(S \ {Min(S)})

\* the file the loop is at
filepath == migration_files[idx]

Init ==
  /\ dirExists \in BOOLEAN
  /\ disk \in (IF dirExists THEN Directories ELSE {<<>>})
  /\ orig = disk
  /\ pc = "main"
  /\ migration_files = <<>>
  /\ total_files = 0
  /\ modified_files = 0
  /\ idx = 0
  /\ content = <<>>
  /\ original_content = <<>>
  /\ modified = FALSE
  /\ ret = FALSE
  /\ before = <<>>
  /\ io = <<>>
  /\ log = <<>>
  /\ report = <<>>
  /\ exit = -1

locals == <<content, original_content, modified, ret, before>>
counters == <<migration_files, total_files, modified_files, idx>>

\* lines 172-174: the directory does not exist
MissingDirectory ==
  /\ pc = "main"
  /\ ~dirExists
  /\ exit' = 1
  /\ pc' = "exit"
  /\ UNCHANGED <<dirExists, disk, orig, counters, locals, io, log, report>>

\* lines 176-178
ListFiles ==
  /\ pc = "main"
  /\ dirExists
  /\ migration_files' = Sorted(Glob)
  /\ total_files' = Len(migration_files')
  /\ modified_files' = 0
  /\ idx' = 1
  /\ pc' = "loop"
  /\ UNCHANGED <<dirExists, disk, orig, locals, io, log, report, exit>>

\* line 180 and the call of line 184
NextFile ==
  /\ pc = "loop"
  /\ idx <= Len(migration_files)
  /\ pc' = "read"
  /\ UNCHANGED <<dirExists, disk, orig, counters, locals, io, log, report, exit>>

\* lines 17-21
ReadFile ==
  /\ pc = "read"
  /\ content' = disk[filepath]
  /\ original_content' = content'
  /\ modified' = FALSE
  /\ before' = content'
  /\ io' = Append(io, <<"read", filepath>>)
  /\ pc' = "rule1"
  /\ UNCHANGED <<dirExists, disk, orig, counters, ret, log, report, exit>>

\* open(filepath, 'r') or f.read() raises
ReadError ==
  /\ pc = "read"
  /\ io' = Append(io, <<"read", filepath>>)
  /\ pc' = "raised"
  /\ UNCHANGED <<dirExists, disk, orig, counters, locals, log, report, exit>>

\* one rule on the buffer, then on to the next program point
Apply(here, st, there) ==
  /\ pc = here
  /\ content' = st.content
  /\ modified' = st.modified
  /\ before' = content
  /\ pc' = there
  /\ UNCHANGED <<dirExists, disk, orig, counters, original_content, ret, io,
                 log, report, exit>>

buffer == [content |-> content, modified |-> modified]

PolicyRule  == Apply("rule1", Rule1(buffer), "rule2")
TriggerRule == Apply("rule2", Rule2(buffer), "rule3")
TableRule   == Apply("rule3", Rule3(buffer), "rule4")
IndexRule   == Apply("rule4", Rule4(buffer), "rule5")
TypeRule    == Apply("rule5", Rule5(buffer), "writeback")

\* lines 156-157: open(filepath, 'w') truncates the file
OpenForWrite ==
  /\ pc = "writeback"
  /\ modified
  /\ disk' = [disk EXCEPT ![filepath] = <<>>]
  /\ io' = Append(io, <<"open_w", filepath>>)
  /\ pc' = "opened"
  /\ UNCHANGED <<dirExists, orig, counters, locals, log, report, exit>>

\* open(filepath, 'w') raises: the file is as it was
OpenError ==
  /\ pc = "writeback"
  /\ modified
  /\ io' = Append(io, <<"open_w", filepath>>)
  /\ pc' = "raised"
  /\ UNCHANGED <<dirExists, disk, orig, counters, locals, log, report, exit>>

\* lines 158-159: f.write(content), the file is closed, return True
WriteFile ==
  /\ pc = "opened"
  /\ disk' = [disk EXCEPT ![filepath] = content]
  /\ ret' = TRUE
  /\ io' = Append(io, <<"write", filepath>>)
  /\ pc' = "returned"
  /\ UNCHANGED <<dirExists, orig, counters, content, original_content,
                 modified, before, log, report, exit>>

\* f.write or the closing flush raises: some proper prefix reached the disk
WriteError ==
  /\ pc = "opened"
  /\ \E k \in 0..MaxTorn :
       /\ k < Len(content)
       /\ disk' = [disk EXCEPT ![filepath] = SubSeq(content, 1, k)]
  /\ io' = Append(io, <<"write_error", filepath>>)
  /\ pc' = "raised"
  /\ UNCHANGED <<dirExists, orig, counters, locals, log, report, exit>>

\* line 161
ReturnFalse ==
  /\ pc = "writeback"
  /\ ~modified
  /\ ret' = FALSE
  /\ pc' = "returned"
  /\ UNCHANGED <<dirExists, disk, orig, counters, content, original_content,
                 modified, before, io, log, report, exit>>

\* back in main's loop: the locals of the call are gone
Continue(line, count) ==
  /\ log' = Append(log, <<filepath, line>>)
  /\ modified_files' = count
  /\ idx' = idx + 1
  /\ content' = <<>>
  /\ original_content' = <<>>
  /\ modified' = FALSE
  /\ ret' = FALSE
  /\ before' = <<>>
  /\ pc' = "loop"
  /\ UNCHANGED <<dirExists, disk, orig, migration_files, total_files, io,
                 report, exit>>

\* lines 184-186
ReportModified ==
  /\ pc = "returned"
  /\ ret
  /\ Continue("Modified", modified_files + 1)

\* lines 187-188
ReportUnchanged ==
  /\ pc = "returned"
  /\ ~ret
  /\ Continue("No changes needed", modified_files)

\* a faulty variant of ReportError: the exception leaves main
ErrorLeavesMain ==
  /\ pc = "raised"
  /\ exit' = 1
  /\ pc' = "exit"
  /\ UNCHANGED <<dirExists, disk, orig, counters, locals, io, log, report>>

\* lines 189-190: except Exception
ReportError ==
  /\ pc = "raised"
  /\ Continue("Error", modified_files)

\* lines 192-200
Summary ==
  /\ pc = "loop"
  /\ idx > Len(migration_files)
  /\ report' = [total |-> total_files, modified |-> modified_files,
                unchanged |-> total_files - modified_files]
  /\ exit' = 0
  /\ pc' = "exit"
  /\ UNCHANGED <<dirExists, disk, orig, counters, locals, io, log>>

Next ==
  \/ MissingDirectory
  \/ ListFiles
  \/ NextFile
  \/ ReadFile
  \/ ReadError
  \/ PolicyRule
  \/ TriggerRule
  \/ TableRule
  \/ IndexRule
  \/ TypeRule
  \/ OpenForWrite
  \/ OpenError
  \/ WriteFile
  \/ WriteError
  \/ ReturnFalse
  \/ ReportModified
  \/ ReportUnchanged
  \/ ReportError
  \/ Summary

Spec == Init /\ [][Next]_vars

----------------------------------------------------------------------------
(* Properties *)

\* how often pat occurs in s
Count(s, pat) == Cardinality({i \in 1..Len(s) : LitAt(s, i, pat)})

\* a is an in-order subsequence of b
RECURSIVE IsSubseq(_, _)
IsSubseq(a, b) ==
  IF a = <<>> THEN TRUE
  ELSE IF b = <<>> THEN FALSE
  ELSE IF Head(a) = Head(b) THEN IsSubseq(Tail(a), Tail(b))
  ELSE IsSubseq(a, Tail(b))

\* how often the operation op was made on file f
Ops(op, f) == Cardinality({i \in 1..Len(io) : io[i] = <<op, f>>})

\* the program points of process_migration_file after rule 1
AfterRule1 == {"rule2", "rule3", "rule4", "rule5", "writeback", "opened",
               "returned"}

\* C1: the pipeline is idempotent: run on the buffer a call ended with, it
\* changes nothing and reports no modification (so nothing is written).
C1_Idempotent ==
  pc = "returned" =>
    /\ Pipeline(content).content = content
    /\ ~Pipeline(content).modified

\* a CREATE TABLE public.<name> or CREATE [UNIQUE] INDEX <name> statement,
\* guarded or not, starts at position i of s
TableOrIndexAt(s, i) ==
  /\ WordBoundary(s, i)
  /\ \/ LitAt(s, i, <<"CREATE", " ", "TABLE", " ">>)
        /\ \/ /\ LitAt(s, i + 4, IfNotExists \o <<" ">>)
              /\ i + 10 <= Len(s)
              /\ s[i + 10] \in PublicNames
           \/ i + 4 <= Len(s) /\ s[i + 4] \in PublicNames
     \/ LitAt(s, i, <<"CREATE", " ", "INDEX", " ">>)
     \/ LitAt(s, i, <<"CREATE", " ", "UNIQUE", " ", "INDEX", " ">>)

\* where the name (or the guard) of the statement that starts at i begins
AfterKeyword(s, i) ==
  IF LitAt(s, i, <<"CREATE", " ", "UNIQUE", " ">>) THEN i + 6 ELSE i + 4

\* the statement that starts at i carries exactly one IF NOT EXISTS, right
\* after TABLE / INDEX
GuardedOnce(s, i) ==
  /\ LitAt(s, AfterKeyword(s, i), IfNotExists \o <<" ">>)
  /\ ~LitAt(s, AfterKeyword(s, i) + 6, IfNotExists)

\* C2: after rules 3 and 4 every CREATE TABLE public.<name> and every
\* CREATE [UNIQUE] INDEX <name> carries exactly one IF NOT EXISTS right after
\* TABLE / INDEX; a text whose statements all carry it already is left as it
\* is; CREATE TABLE of an unqualified name is not touched.
C2_TableIndexGuard ==
  pc = "rule3" =>
    LET out == Rule4(Rule3(buffer)).content
    IN  /\ \A i \in 1..Len(out) : TableOrIndexAt(out, i) => GuardedOnce(out, i)
        /\ (\A i \in 1..Len(content) :
              TableOrIndexAt(content, i) => GuardedOnce(content, i))
           => out = content
        /\ Count(out, <<"CREATE", " ", "TABLE", " ", "users">>)
             = Count(content, <<"CREATE", " ", "TABLE", " ", "users">>)

\* rule 2 as the claim states it: the clause between the timing keyword and
\* ON may run over several lines
RECURSIVE GuardTriggers(_, _)
GuardTriggers(s, i) ==
  IF i > Len(s) THEN <<>>
  ELSE LET m == TriggerMatch(s, i, TRUE)
       IN  IF m.found THEN add_drop_trigger(s, m) \o GuardTriggers(s, m.end + 1)
           ELSE <<s[i]>> \o GuardTriggers(s, i + 1)

\* C3: rule 2 matches every CREATE TRIGGER <name> <timing> ... ON <table>,
\* also when the clause before ON runs over several lines, and puts the DROP
\* and a newline before each one that has no such DROP in the 200 characters
\* before it.
C3_TriggerGuard ==
  pc = "rule3" => content = GuardTriggers(before, 1)

\* the positions of the CREATE POLICY statements of s
PolicyAt(s) == {i \in 1..Len(s) : policy_pattern(s, i).found}

\* DROP POLICY IF EXISTS "<name>" ON <table>; for the statement at i
DropFor(s, i) ==
  <<"DROP", " ", "POLICY", " ", "IF", " ", "EXISTS", " ">>
    \o policy_pattern(s, i).g1 \o <<" ", "ON", " ">>
    \o policy_pattern(s, i).g2 \o <<";">>

\* that DROP occurs in the 200 characters before position i
DropInWindow(s, i) ==
  Contains(LastChars(SubSeq(s, 1, i - 1), Window), DropFor(s, i))

\* s with the DROP and a newline put in right before position i
WithDrop(s, i) ==
  SubSeq(s, 1, i - 1) \o DropFor(s, i) \o <<"\n">> \o From(s, i)

\* C4 as stated: with exactly one CREATE POLICY and no DROP for it in the
\* 200 characters before it, the output of rule 1 holds exactly one such
\* DROP, right before the CREATE; with the DROP in the window, rule 1
\* changes nothing.
C4_PolicyGuardExactlyOne ==
  (pc = "rule2" /\ Cardinality(PolicyAt(before)) = 1) =>
    LET i == CHOOSE x \in PolicyAt(before) : TRUE
    IN  IF DropInWindow(before, i) THEN content = before
        ELSE /\ content = WithDrop(before, i)
             /\ Count(content, DropFor(before, i)) = 1

\* C4 amended: with exactly one CREATE POLICY and no DROP for it in the 200
\* characters before it, rule 1 inserts exactly one such DROP and a newline
\* right before the CREATE, so the output holds one more of them than the
\* input; with the DROP in the window, rule 1 changes nothing.
C4_PolicyGuardOneInserted ==
  (pc = "rule2" /\ Cardinality(PolicyAt(before)) = 1) =>
    LET i == CHOOSE x \in PolicyAt(before) : TRUE
    IN  IF DropInWindow(before, i) THEN content = before
        ELSE /\ content = WithDrop(before, i)
             /\ Count(content, DropFor(before, i))
                  = Count(before, DropFor(before, i)) + 1

\* rule 1 has run on a text with one CREATE POLICY whose DROP lies further
\* back than the window
C4_Witness ==
  /\ pc = "rule2"
  /\ Cardinality(PolicyAt(before)) = 1
  /\ \E i \in PolicyAt(before) :
       /\ ~DropInWindow(before, i)
       /\ Contains(before, DropFor(before, i))
  /\ content # before

\* the last line of the block that starts at line i: the first line from i
\* on that holds a ';', else the last line of the text
BlockEnd(L, i) ==
  LET S == {j \in i..Len(L) : HasSemicolon(L[j])}
  IN  IF S = {} THEN Len(L) ELSE Min(S)

\* the lines among the first n that start a block: CREATE TYPE lines that no
\* earlier block holds
RECURSIVE BlockStarts(_, _)
BlockStarts(L, n) ==
  IF n = 0 THEN {}
  ELSE LET P == BlockStarts(L, n - 1)
       IN  IF type_pattern(Strip(L[n])) /\ \A j \in P : BlockEnd(L, j) < n
           THEN P \cup {n} ELSE P

\* what line i of the input becomes: itself, after DO $$ BEGIN and an indent
\* when it starts a block, before the three closing lines when it ends one
Wrapped(L, i) ==
  LET S == BlockStarts(L, Len(L))
  IN  (IF i \in S THEN <<Marker, <<" ", " ">> \o L[i]>> ELSE <<L[i]>>)
      \o (IF \E j \in S : BlockEnd(L, j) = i
          THEN << <<"EXCEPTION">>,
                  <<" ", " ", "WHEN", " ", "duplicate_object", " ", "THEN", " ",
                    "null", ";">>,
                  <<"END", " ", "$$", ";">> >>
          ELSE <<>>)

\* C5: in a text without DO $$ BEGIN, every CREATE TYPE public.<name> AS ENUM
\* line with the lines through the first ';' is put between DO $$ BEGIN and
\* EXCEPTION / WHEN duplicate_object THEN null; / END $$;, and every other
\* line is kept; in a text with DO $$ BEGIN, rule 5 changes nothing.
C5_EnumWrapper ==
  pc = "writeback" =>
    IF Contains(before, Marker) THEN content = before
    ELSE LET L == Split(before)
         IN  content = Join(Flatten([i \in 1..Len(L) |-> Wrapped(L, i)]))

\* rule 5 has wrapped a statement of several lines
C5_Witness ==
  /\ pc = "writeback"
  /\ ~Contains(before, Marker)
  /\ \E i \in BlockStarts(Split(before), Len(Split(before))) :
       BlockEnd(Split(before), i) > i
  /\ content # before

\* C6: the file is opened for writing exactly when the final buffer differs
\* from the text read, at most once per call; what is written is the final
\* buffer; True is returned exactly when the write was made.
C6_WriteOnlyOnChange ==
  /\ \A f \in DOMAIN disk : Ops("open_w", f) <= 1 /\ Ops("write", f) <= 1
  /\ pc = "opened" => content # original_content
  /\ pc = "returned" =>
       /\ ret <=> content # original_content
       /\ ret <=> Ops("write", filepath) = 1
       /\ ret <=> Ops("open_w", filepath) = 1
       /\ ret => disk[filepath] = content
       /\ ~ret => disk[filepath] = orig[filepath]

\* a call has written a changed buffer and returned True
C6_Witness ==
  /\ pc = "returned"
  /\ ret
  /\ disk[filepath] # orig[filepath]

\* the files the loop has dealt with, in the order of the console lines
Visited == [i \in 1..Len(log) |-> log[i][1]]

\* how many console lines report the outcome o
Outcomes(o) == Cardinality({i \in 1..Len(log) : log[i][2] = o})

\* C7: an error in one file does not stop the run: every file is dealt with;
\* the exit status is 1 exactly when the directory does not exist, and then
\* no file is read or written; it is 0 otherwise, whatever failed.
C7_ErrorsContained ==
  /\ ~dirExists => io = <<>> /\ disk = orig /\ exit # 0
  /\ pc = "exit" => (exit = 1 <=> ~dirExists) /\ (exit = 0 <=> dirExists)
  /\ pc # "exit" => exit = -1
  /\ (pc = "exit" /\ dirExists) =>
       {Visited[i] : i \in 1..Len(log)} = {f \in DOMAIN orig : IsSql(f)}
  /\ \A i \in 1..Len(log) :
       (log[i][2] = "Error" /\ pc = "exit") =>
         \A f \in DOMAIN orig : (IsSql(f) /\ f > log[i][1]) =>
           \E j \in (i + 1)..Len(log) : log[j][1] = f

\* the run ended with status 0 although a file before the last one failed
C7_Witness ==
  /\ pc = "exit"
  /\ exit = 0
  /\ \E i \in 1..(Len(log) - 1) : log[i][2] = "Error"

\* C8: at every point of a run each file on disk holds its original text or
\* its complete rewritten text; a file not reached yet is untouched, a file
\* written stays rewritten, a file whose processing failed is as it was.
C8_NoPartialWrite ==
  \A f \in DOMAIN disk :
    /\ disk[f] \in {orig[f], Pipeline(orig[f]).content}
    /\ Ops("read", f) = 0 => disk[f] = orig[f]
    /\ Ops("write", f) = 1 => disk[f] = Pipeline(orig[f]).content
    /\ (\E i \in 1..Len(log) : log[i] = <<f, "Error">>) => disk[f] = orig[f]

\* C9: at the end of a run over an existing directory, total is the number
\* of *.sql files, modified the number of calls that returned True (the
\* files written), unchanged the rest, failed files included; the files are
\* dealt with once each, in ascending order of their names.
C9_BatchReport ==
  (pc = "exit" /\ dirExists) =>
    /\ report.total = Cardinality({f \in DOMAIN orig : IsSql(f)})
    /\ report.modified = Outcomes("Modified")
    /\ report.modified = Cardinality({f \in DOMAIN orig : Ops("write", f) = 1})
    /\ report.unchanged = report.total - report.modified
    /\ report.unchanged = Outcomes("No changes needed") + Outcomes("Error")
    /\ Len(Visited) = report.total
    /\ \A i, j \in 1..Len(Visited) : i < j => Visited[i] < Visited[j]
    /\ \A f \in DOMAIN orig : ~IsSql(f) => Ops("read", f) = 0

\* three files, exactly two of them modified
C9_Witness ==
  /\ pc = "exit"
  /\ report = [total |-> 3, modified |-> 2, unchanged |-> 1]

\* C10: every rule only inserts: the buffer before a rule, and the text
\* read, are in-order subsequences of the buffer after it; so modified is
\* True exactly when the buffer differs from the text read.
C10_InsertOnly ==
  pc \in AfterRule1 =>
    /\ IsSubseq(before, content)
    /\ IsSubseq(original_content, content)
    /\ modified <=> content # original_content

\* all five rules have run and at least two of them changed the buffer
C10_Witness ==
  /\ pc = "writeback"
  /\ modified
  /\ before # original_content
  /\ content # before

====
